---- MODULE Spec2Model ----
(***************************************************************************)
(* Model of the product-registry tooling:                                  *)
(*   tools/build_product_index.py          (index -> JSON exports)         *)
(*   tools/validate_registry.py            (index / records / exports)     *)
(*   tools/build_registry_from_products.py (product packs -> exports)      *)
(*                                                                         *)
(* A Python str is a sequence of characters, one string each: a printable  *)
(* ASCII character other than the grave accent, and each of \t, \n, \f,    *)
(* \r, is written as itself; any other character is written as the name   *)
(* of its code point ("U+001F", "U+0663").                                 *)
(* A line of the index file is held as line.split("|"): the sequence of    *)
(* its segments, so "| a | b |" is << "", " a ", " b ", "" >>.  The text   *)
(* of the index file is the sequence of its lines (str.splitlines()).      *)
(***************************************************************************)
EXTENDS Integers, Sequences, FiniteSets, TLC

VARIABLES index, records, exports, EXPORTS, strayExports, last

vars == <<index, records, exports, EXPORTS, strayExports, last>>

(***************************************************************************)
(* Strings                                                                 *)
(***************************************************************************)
\* The printable ASCII characters, U+0020 to U+007E, in code point order
\* (the grave accent by its name).
Ascii ==
    <<" ", "!", "\"", "#", "$", "%", "&", "'", "(", ")", "*", "+", ",", "-",
      ".", "/", "0", "1", "2", "3", "4", "5", "6", "7", "8", "9", ":", ";",
      "<", "=", ">", "?", "@", "A", "B", "C", "D", "E", "F", "G", "H", "I",
      "J", "K", "L", "M", "N", "O", "P", "Q", "R", "S", "T", "U", "V", "W",
      "X", "Y", "Z", "[", "\\", "]", "^", "_", "U+0060", "a", "b", "c", "d", "e",
      "f", "g", "h", "i", "j", "k", "l", "m", "n", "o", "p", "q", "r", "s",
      "t", "u", "v", "w", "x", "y", "z", "{", "|", "}", "~">>

HexDigits ==
    <<"0", "1", "2", "3", "4", "5", "6", "7", "8", "9",
      "A", "B", "C", "D", "E", "F">>

RECURSIVE Hex(_)
Hex(n) ==
    IF n < 16 THEN HexDigits[n + 1]
    ELSE Hex(n \div 16) \o HexDigits[(n % 16) + 1]

\* The name of a code point: "U+" and at least four hexadecimal digits.
CodePointName(n) ==
    "U+" \o (IF n < 16 THEN "000" ELSE IF n < 256 THEN "00"
             ELSE IF n < 4096 THEN "0" ELSE "") \o Hex(n)

\* chr(n): the character with code point n, as the model holds it.
Chr(n) ==
    IF n \in 32..126 THEN Ascii[n - 31]
    ELSE IF n = 9 THEN "\t"
    ELSE IF n = 10 THEN "\n"
    ELSE IF n = 12 THEN "\f"
    ELSE IF n = 13 THEN "\r"
    ELSE CodePointName(n)

\* The number a string of hexadecimal digits writes.
RECURSIVE HexValue(_)
HexValue(h) ==
    IF h = "" THEN 0
    ELSE 16 * HexValue(SubSeq(h, 1, Len(h) - 1))
         + (CHOOSE k \in 0..15 : HexDigits[k + 1] = SubSeq(h, Len(h), Len(h)))

\* ord(c)
Ord(c) ==
    IF Len(c) = 1
    THEN CHOOSE n \in (9..13) \cup (32..126) : Chr(n) = c
    ELSE HexValue(SubSeq(c, 3, Len(c)))

\* The str of a string literal, character by character.
RECURSIVE Chars(_)
Chars(s) == IF s = "" THEN <<>> ELSE <<Head(s)>> \o Chars(Tail(s))

\* text.encode("utf-8") raises UnicodeEncodeError: text is not a sequence
\* of characters UTF-8 encodes, which are all but the surrogate code points
\* U+D800..U+DFFF (a str may hold them, from a \u escape of JSON or from a
\* file name that is not UTF-8).
EncodeRaises(text) ==
    text \notin Seq({c \in STRING : Len(c) = 1 \/ Ord(c) \notin 55296..57343})


\* Code points c with chr(c).isspace(): what str.strip() removes and what
\* \s of a str pattern matches (\t \n \v \f \r, U+001C..U+001F, the space,
\* U+0085, U+00A0, U+1680, U+2000..U+200A, U+2028, U+2029, U+202F, U+205F,
\* U+3000).
WhitespaceCodePoints ==
    (9..13) \cup (28..32) \cup {133, 160, 5760} \cup (8192..8202)
        \cup {8232, 8233, 8239, 8287, 12288}

Whitespace == {Chr(n) : n \in WhitespaceCodePoints}

\* Code points of the zeros of the Unicode decimal digits (category Nd);
\* the nine code points after each zero are its digits 1 to 9.
DecimalDigitZeros ==
    {48, 1632, 1776, 1984, 2406, 2534, 2662, 2790, 2918, 3046, 3174, 3302,
     3430, 3558, 3664, 3792, 3872, 4160, 4240, 6112, 6160, 6470, 6608, 6784,
     6800, 6992, 7088, 7232, 7248, 42528, 43216, 43264, 43472, 43504, 43600,
     44016, 65296, 66720, 68912, 69734, 69872, 69942, 70096, 70384, 70736,
     70864, 71248, 71360, 71472, 71904, 72016, 72784, 73040, 73120, 92768,
     92864, 93008, 120782, 120792, 120802, 120812, 120822, 123200, 123632,
     125264, 130032}

\* \d of a str pattern: every Unicode decimal digit.
Digits == {Chr(z + k) : z \in DecimalDigitZeros, k \in 0..9}

\* 0-9 of a character class: the ten ASCII digits only.
AsciiDigits == {Chr(n) : n \in 48..57}

UpperCase == {"A", "B", "C", "D", "E", "F", "G", "H", "I", "J", "K", "L", "M",
              "N", "O", "P", "Q", "R", "S", "T", "U", "V", "W", "X", "Y", "Z"}

\* The same sequence (or function), held element by element rather than as
\* a rule evaluated on each use.
Tuple(f) == f \o <<>>
Fcn(f) == f @@ <<>>

RECURSIVE LStrip(_)
LStrip(s) ==
    IF s # <<>> /\ Head(s) \in Whitespace THEN LStrip(Tail(s)) ELSE s

RECURSIVE RStrip(_)
RStrip(s) ==
    IF s # <<>> /\ s[Len(s)] \in Whitespace
    THEN RStrip(SubSeq(s, 1, Len(s) - 1))
    ELSE s

\* str.strip()
Strip(s) == RStrip(LStrip(s))

\* str.split(sep) for a one-character separator: always at least one piece.
RECURSIVE Split(_, _)
Split(s, sep) ==
    IF \A i \in 1..Len(s) : s[i] # sep
    THEN <<s>>
    ELSE LET k == CHOOSE i \in 1..Len(s) :
                      s[i] = sep /\ \A j \in 1..(i - 1) : s[j] # sep
         IN  <<SubSeq(s, 1, k - 1)>> \o Split(SubSeq(s, k + 1, Len(s)), sep)

RECURSIVE Concat(_)
Concat(ss) == IF ss = <<>> THEN <<>> ELSE Head(ss) \o Concat(Tail(ss))

SelectNonEmpty(ss) == SelectSeq(ss, LAMBDA p : p # <<>>)

StripEach(ss) == Tuple([i \in 1..Len(ss) |-> Strip(ss[i])])

\* [p.strip() for p in cell.split(",") if p.strip()]
SplitStripNonEmpty(cell) == SelectNonEmpty(StripEach(Split(cell, ",")))

(***************************************************************************)
(* TOIL IDs: TOIL_ID_RE = ^T4L-TOIL-\d{3}(?:-[A-Z0-9]+)+$                  *)
(***************************************************************************)
ToilIdPrefix == <<"T", "4", "L", "-", "T", "O", "I", "L", "-">>

\* (?:-[A-Z0-9]+)+ against the whole of t
MatchSegments(t) ==
    /\ t # <<>>
    /\ t[1] = "-"
    /\ t[Len(t)] # "-"
    /\ \A i \in 1..Len(t) : t[i] \in UpperCase \cup AsciiDigits \cup {"-"}
    /\ \A i \in 1..(Len(t) - 1) : ~(t[i] = "-" /\ t[i + 1] = "-")

\* TOIL_ID_RE.match(s) is not None; $ matches at the end of s and before
\* a "\n" that ends s
MatchToilId(s) ==
    LET Match(t) ==
            /\ Len(t) > 12
            /\ SubSeq(t, 1, 9) = ToilIdPrefix
            /\ \A i \in 10..12 : t[i] \in Digits
            /\ MatchSegments(SubSeq(t, 13, Len(t)))
    IN  \/ Match(s)
        \/ /\ s # <<>>
           /\ s[Len(s)] = "\n"
           /\ Match(SubSeq(s, 1, Len(s) - 1))

(***************************************************************************)
(* Lines of the Markdown index                                             *)
(***************************************************************************)
ColToilId == <<"T", "O", "I", "L", " ", "I", "D">>
ColProductName == <<"P", "r", "o", "d", "u", "c", "t", " ", "N", "a", "m", "e">>
ColCategory == <<"C", "a", "t", "e", "g", "o", "r", "y">>
ColLeadCreator == <<"L", "e", "a", "d", " ", "C", "r", "e", "a", "t", "o", "r">>
ColStatus == <<"S", "t", "a", "t", "u", "s">>
ColLicenseState == <<"L", "i", "c", "e", "n", "s", "e", " ", "S", "t", "a", "t", "e">>
ColAliases == <<"A", "l", "i", "a", "s", "e", "s">>
ColLegacyIds == <<"L", "e", "g", "a", "c", "y", " ", "I", "D", "s">>
OptionalSuffix == <<" ", "(", "O", "p", "t", "i", "o", "n", "a", "l", ")">>
ColAliasesOpt == ColAliases \o OptionalSuffix
ColLegacyIdsOpt == ColLegacyIds \o OptionalSuffix

\* required_cols
required_cols ==
    <<ColToilId, ColProductName, ColCategory, ColLeadCreator, ColStatus,
      ColLicenseState>>

\* line.strip().startswith("|")
StartsWithPipe(line) == Len(line) >= 2 /\ Strip(line[1]) = <<>>

\* re.search(r"\|\s*TOIL ID\s*\|", line): a segment between two pipes that
\* is "TOIL ID" up to surrounding whitespace
SearchToilIdCell(line) ==
    \E i \in 2..(Len(line) - 1) : Strip(line[i]) = ColToilId

\* is_separator(line)
is_separator(line) ==
    LET Check(s) == s # <<>> /\ \A i \in 1..Len(s) : s[i] \in {"-", ":", " "}
    IN  Check(Strip(Concat(line)))

\* line.strip(), on the segments
StripLine(line) ==
    IF Len(line) = 1
    THEN <<Strip(line[1])>>
    ELSE Tuple([i \in 1..Len(line) |->
                   IF i = 1 THEN LStrip(line[i])
                   ELSE IF i = Len(line) THEN RStrip(line[i])
                   ELSE line[i]])

\* s.strip("|"), on the segments: each leading or trailing empty segment
\* stands for one pipe at that end of the string
RECURSIVE StripLeadingPipes(_)
StripLeadingPipes(line) ==
    IF Len(line) > 1 /\ line[1] = <<>>
    THEN StripLeadingPipes(Tail(line))
    ELSE line

RECURSIVE StripTrailingPipes(_)
StripTrailingPipes(line) ==
    IF Len(line) > 1 /\ line[Len(line)] = <<>>
    THEN StripTrailingPipes(SubSeq(line, 1, Len(line) - 1))
    ELSE line

\* [c.strip() for c in line.strip().strip("|").split("|")]
SplitCells(line) ==
    StripEach(StripTrailingPipes(StripLeadingPipes(StripLine(line))))

\* dict(zip(header, parts)), len(parts) = len(header): a repeated key keeps
\* its last value
ZipDict(header, parts) ==
    Fcn([h \in {header[j] : j \in 1..Len(header)} |->
            parts[CHOOSE j \in 1..Len(header) :
                      header[j] = h /\ \A k \in (j + 1)..Len(header) : header[k] # h]])

\* d.get(key, default)
Get(d, key, default) == IF key \in DOMAIN d THEN d[key] ELSE default

\* The index of the first line from `start` on that does not begin with a
\* pipe (Len + 1 when there is none): where the row loop stops.
RECURSIVE RowsEnd(_, _)
RowsEnd(lines, start) ==
    IF start <= Len(lines) /\ StartsWithPipe(lines[start])
    THEN RowsEnd(lines, start + 1)
    ELSE start

\* The table body read by both parsers: lines header_idx+2 .. as long as
\* they begin with a pipe.
TableBody(lines, header_idx) ==
    LET Body(header, stop) ==
            IF \E i \in (header_idx + 2)..(stop - 1) :
                   Len(SplitCells(lines[i])) # Len(header)
            THEN [ok |-> FALSE, err |-> "malformed_row", rows |-> <<>>]
            ELSE [ok |-> TRUE, err |-> "",
                  rows |-> Tuple([k \in 1..(stop - header_idx - 2) |->
                               ZipDict(header, SplitCells(lines[header_idx + 1 + k]))])]
    IN  Body(SplitCells(lines[header_idx]), RowsEnd(lines, header_idx + 2))

(***************************************************************************)
(* build_product_index.py                                                  *)
(***************************************************************************)
\* header_idxs without the test for a separator row
BPI_header_idxs_no_separator(lines) ==
    {i \in 1..Len(lines) : SearchToilIdCell(lines[i])}

\* header_idxs: the lines with a TOIL ID cell that a separator row follows
BPI_header_idxs(lines) ==
    {i \in 1..Len(lines) :
        /\ SearchToilIdCell(lines[i])
        /\ i + 1 <= Len(lines)
        /\ is_separator(lines[i + 1])}

Failure(e) == [ok |-> FALSE, err |-> e, rows |-> <<>>]

\* _parse_markdown_table of build_product_index: SystemExit on every error
BPI_parse_markdown_table(lines) ==
    LET Table(header, body) ==
            IF \E c \in 1..Len(required_cols) :
                   \A j \in 1..Len(header) : header[j] # required_cols[c]
            THEN Failure("missing_column")
            ELSE IF ~body.ok THEN body
            ELSE IF body.rows = <<>> THEN Failure("zero_rows")
            ELSE body
        At(header_idx) == Table(SplitCells(lines[header_idx]), TableBody(lines, header_idx))
        Parse(header_idxs) ==
            IF header_idxs = {} THEN Failure("no_header")
            ELSE IF Cardinality(header_idxs) > 1 THEN Failure("multiple_headers")
            ELSE At(CHOOSE i \in header_idxs : TRUE)
    IN  Parse(BPI_header_idxs(lines))

\* _split_list of build_product_index
BPI_split_list(cell) ==
    LET SplitList(c) ==
            IF c = <<>> \/ c = <<"-">> THEN <<>> ELSE SplitStripNonEmpty(c)
    IN  SplitList(Strip(cell))

\* a or b, on str
OrElse(a, b) == IF a # <<>> THEN a ELSE b

\* A product dict with its optional keys: present only when the list is
\* not empty.
WithOptionalLists(item, aliases, legacy_ids) ==
    LET withAliases ==
            IF aliases # <<>> THEN item @@ ("aliases" :> aliases) ELSE item
    IN  IF legacy_ids # <<>>
        THEN withAliases @@ ("legacy_ids" :> legacy_ids)
        ELSE withAliases

\* _normalize_product(row), with RECORDS_DIR holding <id>.md for the ids of
\* recs.  row has every required column (checked by the parser).  The
\* record file is looked for only after toil_id matched TOIL_ID_RE: it
\* holds no "/", and RECORDS_DIR / f"{toil_id}.md" is a name in RECORDS_DIR.
BPI_normalize_product(row, recs) ==
    LET Normalize(toil_id, aliases, legacy_ids) ==
            IF ~MatchToilId(toil_id)
            THEN [ok |-> FALSE, err |-> "invalid_toil_id", item |-> [toil_id |-> toil_id]]
            ELSE IF toil_id \notin recs
            THEN [ok |-> FALSE, err |-> "missing_record", item |-> [toil_id |-> toil_id]]
            ELSE [ok |-> TRUE, err |-> "",
                  item |-> WithOptionalLists(
                               [toil_id |-> toil_id,
                                product_name |-> Strip(row[ColProductName]),
                                category |-> Strip(row[ColCategory]),
                                lead_creator |-> Strip(row[ColLeadCreator]),
                                status |-> Strip(row[ColStatus]),
                                license_state |-> Strip(row[ColLicenseState])],
                               aliases, legacy_ids)]
    IN  Normalize(Strip(row[ColToilId]),
                  BPI_split_list(OrElse(Get(row, ColAliasesOpt, <<>>),
                                        Get(row, ColAliases, <<>>))),
                  BPI_split_list(OrElse(Get(row, ColLegacyIdsOpt, <<>>),
                                        Get(row, ColLegacyIds, <<>>))))

(***************************************************************************)
(* JSON values and file contents.                                          *)
(*                                                                         *)
(* A JSON value is a record whose one field names its Python type: a       *)
(* list, a dict or None.  A product is a dict held as a function from its  *)
(* keys, a string as the sequence of its characters.  The candidate table  *)
(* is held as its text, character by character.  A file is its value and   *)
(* its byte layout: "lf" is what the tools write                           *)
(* (json.dumps(obj, indent=2, sort_keys=True) + "\n", or the table's text),*)
(* "crlf" the same with \r\n for each line end written; "garbage" is text  *)
(* that is not JSON, "empty" an empty file, "missing" no file.  Two files  *)
(* are equal byte for byte iff they are equal here.                        *)
(***************************************************************************)
JList(items) == [list |-> items]
JDict(d) == [dict |-> d]
JNone == [none |-> <<>>]
MdTable(text) == [md |-> text]

Missing == [fmt |-> "missing", data |-> JNone]
Garbage == [fmt |-> "garbage", data |-> JNone]
EmptyText == [fmt |-> "empty", data |-> JNone]

\* path.write_text(json.dumps(obj, indent=2, sort_keys=True) + "\n")
Dumps(obj) == [fmt |-> "lf", data |-> obj]

\* path.exists()
Exists(file) == file.fmt # "missing"

\* path.read_bytes(): the content as it is
read_bytes(file) == file

\* path.read_text(encoding="utf-8"): text mode translates \r\n to \n
read_text(file) == IF file.fmt = "crlf" THEN [file EXCEPT !.fmt = "lf"] ELSE file

\* json.loads(text) raises on text that is not JSON
LoadsRaises(text) == text.fmt \in {"garbage", "empty"}

\* json.loads(text), when it does not raise
Loads(text) == text.data

SCHEMA_VERSION == "1.0.0"

V1Object(products) ==
    JDict([schema_version |-> SCHEMA_VERSION, products |-> JList(products)])

\* seen_ids that never holds an id
\* Whether some row before row i has the same toil_id (seen_ids).
SeenBefore(norm, i) ==
    \E j \in 1..(i - 1) : norm[j].item.toil_id = norm[i].item.toil_id

\* build_exports(): the products of the index, or the first error
BPI_build_exports(lines, recs) ==
    LET Collect(norm, bad) ==
            IF bad # {}
            THEN LET first == CHOOSE i \in bad : \A j \in bad : i <= j
                 IN  [ok |-> FALSE,
                      err |-> IF norm[first].ok THEN "duplicate_toil_id"
                              ELSE norm[first].err,
                      products |-> <<>>]
            ELSE [ok |-> TRUE, err |-> "",
                  products |-> Tuple([i \in 1..Len(norm) |-> norm[i].item])]
        Loop(norm) ==
            Collect(norm, {i \in 1..Len(norm) : ~norm[i].ok \/ SeenBefore(norm, i)})
        Build(parsed) ==
            IF ~parsed.ok THEN [ok |-> FALSE, err |-> parsed.err, products |-> <<>>]
            ELSE Loop(Tuple([i \in 1..Len(parsed.rows) |->
                                BPI_normalize_product(parsed.rows[i], recs)]))
    IN  Build(BPI_parse_markdown_table(lines))

LEGACY_EXPORT == "exports/product_index.json"
V1_EXPORT == "exports/product_index_v1.json"
CANDIDATE_TABLE == "exports/products_candidate_index_table.md"

\* The text --check compares with: read_text() of the file, "" without it
BPI_current(file) == IF Exists(file) THEN read_text(file) ELSE EmptyText

\* A failing run that has emptied the exports before stopping
BPI_after_error_written(exp) ==
    [exp EXCEPT !.legacy = Dumps(JList(<<>>)), !.v1 = Dumps(V1Object(<<>>))]

\* The exports a run leaves when build_exports() raises SystemExit: main()
\* stops at its call, before the first _write_json
BPI_after_error(exp) == exp

\* main() of build_product_index on the files (lines, recs, exp):
\* the exit status, the files reported as out of date, the exports left.
BPI_main(lines, recs, exp, check) ==
    LET Check(mismatches) ==
            [exit |-> IF mismatches # <<>> THEN 4 ELSE 0, err |-> "",
             report |-> mismatches, exports |-> exp]
        Main(built, expected_legacy, expected_v1) ==
            IF ~built.ok
            THEN [exit |-> 1, err |-> built.err, report |-> <<>>,
                  exports |-> BPI_after_error(exp)]
            ELSE IF check
            THEN Check((IF BPI_current(exp.legacy) # expected_legacy
                        THEN <<LEGACY_EXPORT>> ELSE <<>>)
                       \o (IF BPI_current(exp.v1) # expected_v1
                           THEN <<V1_EXPORT>> ELSE <<>>))
            ELSE [exit |-> 0, err |-> "", report |-> <<>>,
                  exports |-> [exp EXCEPT !.legacy = expected_legacy,
                                          !.v1 = expected_v1]]
        Built(built) ==
            Main(built, Dumps(JList(built.products)), Dumps(V1Object(built.products)))
    IN  Built(BPI_build_exports(lines, recs))

(***************************************************************************)
(* Paths.  An absolute path is the sequence of its names, << >> being the  *)
(* root directory.  The file tree is the checkout at ROOT and nothing      *)
(* else: its directories index, records, exports, tools and tests, the     *)
(* index file, the record files, the export files that exist, the scripts  *)
(* and the tests.  No link, and every name within the limits of the file   *)
(* system.                                                                 *)
(***************************************************************************)
\* ROOT = Path(__file__).resolve().parents[1]: where the checkout is,
\* here /repo
ROOT == <<Chars("repo")>>
RECORDS_DIR == ROOT \o <<Chars("records")>>

\* The directories of the tree: those above ROOT, ROOT and the five in it.
Directories ==
    {SubSeq(ROOT, 1, k) : k \in 0..Len(ROOT)}
    \cup {ROOT \o <<Chars(name)>> :
              name \in {"index", "records", "exports", "tools", "tests"}}

\* The files of the tree that no tool writes: the index, the scripts and
\* the tests.
SourceFiles ==
    {ROOT \o <<Chars("index"), Chars("TOIL_Product_Index.md")>>}
    \cup {ROOT \o <<Chars("tools"), Chars(name)>> :
              name \in {"build_product_index.py", "validate_registry.py",
                        "build_registry_from_products.py"}}
    \cup {ROOT \o <<Chars("tests"), Chars(name)>> :
              name \in {"test_registry_smoke.py",
                        "test_build_registry_from_products.py"}}

\* The files of the tree, recs being the ids with a record file and exp
\* the three export files.
Files(recs, exp) ==
    SourceFiles
    \cup {RECORDS_DIR \o <<id \o Chars(".md")>> : id \in recs}
    \cup {ROOT \o Split(Chars(rel), "/") :
              rel \in {r \in {LEGACY_EXPORT, V1_EXPORT, CANDIDATE_TABLE} :
                           Exists(exp[IF r = LEGACY_EXPORT THEN "legacy"
                                      ELSE IF r = V1_EXPORT THEN "v1"
                                      ELSE "table"])}}

\* Whether the names of parts, followed one after the other from the
\* directory dir, lead to a file or a directory: an empty name and "."
\* stay, ".." goes up (the root directory is above itself), a name that is
\* not the last must be a directory.
RECURSIVE Walk(_, _, _)
Walk(dir, parts, files) ==
    IF parts = <<>> THEN TRUE
    ELSE IF Head(parts) \in {<<>>, <<".">>} THEN Walk(dir, Tail(parts), files)
    ELSE IF Head(parts) = <<".", ".">> THEN Walk(SubSeq(dir, 1, Len(dir) - 1), Tail(parts), files)
    ELSE IF dir \o <<Head(parts)>> \in Directories
    THEN Walk(dir \o <<Head(parts)>>, Tail(parts), files)
    ELSE Len(parts) = 1 /\ dir \o <<Head(parts)>> \in files

\* (base / path).exists(): base / path is path itself when path is
\* absolute (begins with "/").
PathExists(base, path, files) ==
    Walk(IF path # <<>> /\ path[1] = "/" THEN <<>> ELSE base, Split(path, "/"), files)

\* (RECORDS_DIR / path).relative_to(root) raises ValueError: never for a
\* relative path (RECORDS_DIR is under root); for an absolute path unless
\* its parts begin with those of root.  A path that begins with exactly two
\* slashes has another root than "/".  The parts of a pure path: pathlib
\* drops empty names and ".", and keeps "..".
RelativeToRaises(path, root) ==
    LET Raises(parts) ==
            \/ Len(path) >= 2 /\ path[2] = "/" /\ (Len(path) = 2 \/ path[3] # "/")
            \/ Len(parts) < Len(root)
            \/ SubSeq(parts, 1, Len(root)) # root
    IN  /\ path # <<>>
        /\ path[1] = "/"
        /\ Raises(SelectSeq(Split(path, "/"), LAMBDA p : p # <<>> /\ p # <<".">>))

(***************************************************************************)
(* validate_registry.py                                                    *)
(***************************************************************************)
VR_header_idxs(lines) == {i \in 1..Len(lines) : SearchToilIdCell(lines[i])}

\* _parse_markdown_table of validate_registry: ValueError on every error
VR_parse_markdown_table(lines) ==
    LET Parse(header_idxs) ==
            IF header_idxs = {} THEN Failure("no_header")
            ELSE IF Cardinality(header_idxs) > 1 THEN Failure("multiple_headers")
            ELSE TableBody(lines, CHOOSE i \in header_idxs : TRUE)
    IN  Parse(VR_header_idxs(lines))

\* _split_list of validate_registry.main
VR_split_list(cell) == SplitStripNonEmpty(cell)

\* tid = (r.get("TOIL ID") or "").strip()
VR_tid(r) == Strip(Get(r, ColToilId, <<>>))

\* rec.exists() for rec = RECORDS_DIR / f"{tid}.md": tid is joined into the
\* path as it stands in the cell
VR_record_exists(tid, recs, exp) ==
    PathExists(RECORDS_DIR, tid \o Chars(".md"), Files(recs, exp))

\* The checks of main() on the index rows without those for zero rows, for
\* the format of the TOIL ID and for duplicates
VR_row_errors_records_only(rows, recs, exp) ==
    LET NoRecord(tid) == ~VR_record_exists(tid, recs, exp)
        Errors(tids) ==
            IF \E j \in 1..Len(tids) :
                   NoRecord(tids[j])
                   /\ RelativeToRaises(tids[j] \o Chars(".md"), ROOT)
            THEN [raised |-> "ValueError", errors |-> {}]
            ELSE [raised |-> "",
                  errors |-> {"missing_record" :
                                 i \in {j \in 1..Len(tids) : NoRecord(tids[j])}}]
    IN  Errors(Tuple([i \in 1..Len(rows) |-> VR_tid(rows[i])]))

\* The checks of main() on the index rows (lines 67-86): the errors
\* appended, or the exception that ends the loop (and main) at the first
\* row whose path names no file and is not under ROOT: the ValueError of
\* rec.relative_to(ROOT).
VR_row_errors(rows, recs, exp) ==
    LET NoRecord(tid) == ~VR_record_exists(tid, recs, exp)
        Errors(tids) ==
            IF \E j \in 1..Len(tids) :
                   NoRecord(tids[j])
                   /\ RelativeToRaises(tids[j] \o Chars(".md"), ROOT)
            THEN [raised |-> "ValueError", errors |-> {}]
            ELSE [raised |-> "",
                  errors |->
                      (IF rows = <<>> THEN {"zero_rows"} ELSE {})
                      \cup {"invalid_toil_id" :
                               i \in {j \in 1..Len(tids) : ~MatchToilId(tids[j])}}
                      \cup {"missing_record" :
                               i \in {j \in 1..Len(tids) : NoRecord(tids[j])}}
                      \cup {"duplicate_toil_id" :
                               i \in {j \in 1..Len(tids) :
                                         \E k \in 1..(j - 1) : tids[k] = tids[j]}}]
    IN  Errors(Tuple([i \in 1..Len(rows) |-> VR_tid(rows[i])]))

\* legacy / v1 as main() holds them after the two try blocks: the parsed
\* value, None for a missing file or one that is not JSON.
VR_loaded(file) ==
    IF Exists(file) /\ ~LoadsRaises(read_text(file))
    THEN Loads(read_text(file))
    ELSE JNone

IsList(x) == DOMAIN x = {"list"}
IsDict(x) == DOMAIN x = {"dict"}

\* v1.get("products"), for a dict v1
VR_products(v1) == Get(v1.dict, "products", JNone)

\* The drift test, never failing
VR_drift_unchecked(legacy, v1) == FALSE

\* legacy != v1.get("products"), for a list legacy and a dict v1
VR_drift(legacy, v1) == legacy # VR_products(v1)

\* The checks of main() on the export files (lines 88-130).
VR_export_errors(exp) ==
    LET Errors(legacy, v1) ==
            (IF ~Exists(exp.legacy) THEN {"missing_legacy"} ELSE {})
            \cup (IF ~Exists(exp.v1) THEN {"missing_v1"} ELSE {})
            \cup (IF Exists(exp.legacy) /\ LoadsRaises(read_text(exp.legacy))
                  THEN {"legacy_invalid_json"} ELSE {})
            \cup (IF Exists(exp.legacy) /\ ~LoadsRaises(read_text(exp.legacy))
                     /\ ~IsList(legacy)
                  THEN {"legacy_not_list"} ELSE {})
            \cup (IF Exists(exp.v1) /\ LoadsRaises(read_text(exp.v1))
                  THEN {"v1_invalid_json"} ELSE {})
            \cup (IF Exists(exp.v1) /\ ~LoadsRaises(read_text(exp.v1)) /\ ~IsDict(v1)
                  THEN {"v1_not_dict"} ELSE {})
            \cup (IF IsDict(v1) /\ Get(v1.dict, "schema_version", "") # SCHEMA_VERSION
                  THEN {"schema_version"} ELSE {})
            \cup (IF IsDict(v1)
                     /\ (~IsList(VR_products(v1)) \/ VR_products(v1).list = <<>>)
                  THEN {"products_not_nonempty_list"} ELSE {})
            \cup (IF IsList(legacy) /\ IsDict(v1) /\ IsList(VR_products(v1))
                     /\ VR_drift(legacy, v1)
                  THEN {"exports_drift"} ELSE {})
    IN  Errors(VR_loaded(exp.legacy), VR_loaded(exp.v1))

\* exp_by_id.get(tid): the last product of the list with that toil_id, as a
\* list of at most one product
VR_exp_by_id(products, tid) ==
    LET Last(hits) ==
            IF hits = {} THEN <<>>
            ELSE <<products[CHOOSE i \in hits : \A j \in hits : j <= i]>>
    IN  Last({i \in 1..Len(products) :
                 "toil_id" \in DOMAIN products[i] /\ products[i].toil_id = tid})

\* exp.get(key) != cells, for a non-empty list cells
VR_differs(exp, key, cells) == key \notin DOMAIN exp \/ exp[key] # cells

\* (r.get("Aliases (Optional)") or r.get("Aliases") or "").strip()
VR_aliases_cell(r) ==
    Strip(OrElse(OrElse(Get(r, ColAliasesOpt, <<>>), Get(r, ColAliases, <<>>)), <<>>))

\* (r.get("Legacy IDs (Optional)") or r.get("Legacy IDs") or "").strip()
VR_legacy_ids_cell(r) ==
    Strip(OrElse(OrElse(Get(r, ColLegacyIdsOpt, <<>>), Get(r, ColLegacyIds, <<>>)), <<>>))

\* The check of main() that the optional cells of the index are in the
\* v1 export (lines 132-159).
VR_optional_errors(rows, exp) ==
    LET Differs(found, key, cells) ==
            found # <<>> /\ cells # <<>> /\ VR_differs(found[1], key, cells)
        Errors(products) ==
            {"aliases_differ" :
                i \in {j \in 1..Len(rows) :
                          Differs(VR_exp_by_id(products, VR_tid(rows[j])), "aliases",
                                  VR_split_list(VR_aliases_cell(rows[j])))}}
            \cup {"legacy_ids_differ" :
                     i \in {j \in 1..Len(rows) :
                               Differs(VR_exp_by_id(products, VR_tid(rows[j])),
                                       "legacy_ids",
                                       VR_split_list(VR_legacy_ids_cell(rows[j])))}}
        Check(v1) ==
            IF IsDict(v1) /\ IsList(VR_products(v1))
            THEN Errors(VR_products(v1).list)
            ELSE {}
    IN  Check(VR_loaded(exp.v1))

\* main() of validate_registry on the files: the exit status and the
\* errors printed, or the exception that ends the run (exit status 1, no
\* error printed).
VR_main(lines, recs, exp) ==
    LET Exit(errors) ==
            [exit |-> IF errors # {} THEN 1 ELSE 0, errors |-> errors, raised |-> ""]
        Rows(parsed, rowErrors) ==
            IF rowErrors.raised # ""
            THEN [exit |-> 1, errors |-> {}, raised |-> rowErrors.raised]
            ELSE Exit(rowErrors.errors
                      \cup VR_export_errors(exp)
                      \cup VR_optional_errors(parsed.rows, exp))
        Main(parsed) ==
            IF ~parsed.ok THEN [exit |-> 1, errors |-> {parsed.err}, raised |-> ""]
            ELSE Rows(parsed, VR_row_errors(parsed.rows, recs, exp))
    IN  Main(VR_parse_markdown_table(lines))

(***************************************************************************)
(* build_registry_from_products.py                                         *)
(*                                                                         *)
(* The products checkout given by --products is an input of a run:         *)
(* [isdir, entries], entries being its directories in sorted(iterdir())    *)
(* order, each [name, readme, ids, metadata]: whether it has a README.md,  *)
(* TOIL_ID_RE.findall(README text), and the object in metadata.json (the   *)
(* empty dict when there is no such file or it does not parse).            *)
(***************************************************************************)
\* a < b on str
RECURSIVE StrLess(_, _)
StrLess(a, b) ==
    IF b = <<>> THEN FALSE
    ELSE IF a = <<>> THEN TRUE
    ELSE IF Head(a) # Head(b) THEN Ord(Head(a)) < Ord(Head(b))
    ELSE StrLess(Tail(a), Tail(b))

\* sep.join(parts)
RECURSIVE Join(_, _)
Join(parts, sep) ==
    IF parts = <<>> THEN <<>>
    ELSE IF Len(parts) = 1 THEN parts[1]
    ELSE parts[1] \o sep \o Join(Tail(parts), sep)

\* list(dict.fromkeys(matches)): stable de-dupe
Dedupe(matches) ==
    SelectSeq(Tuple([i \in 1..Len(matches) |->
                        IF \E j \in 1..(i - 1) : matches[j] = matches[i]
                        THEN <<>> ELSE matches[i]]),
              LAMBDA m : m # <<>>)

\* _split_csv(cell): the parts, None (the empty list here) when there is none
BRP_split_csv(cell) == SplitStripNonEmpty(cell)

\* The list values _load_pack_metadata accepts: every entry a non-blank str
AllNonBlank(list) == \A i \in 1..Len(list) : Strip(list[i]) # <<>>

\* _load_pack_metadata: the str fields that are not blank, stripped; the
\* list fields joined by ","
BRP_load_pack_metadata(metadata) ==
    LET strKeys == {k \in {"product_name", "status", "license_state", "category",
                          "lead_creator"} :
                       k \in DOMAIN metadata /\ Strip(metadata[k]) # <<>>}
        listKeys == {k \in {"aliases", "legacy_ids"} :
                        k \in DOMAIN metadata /\ AllNonBlank(metadata[k])}
    IN  Fcn([k \in strKeys \cup listKeys |->
                IF k \in strKeys THEN Strip(metadata[k])
                ELSE Join(StripEach(metadata[k]), <<",">>)])

\* _candidate_from_pack, with _extract_toil_id_from_readme: SystemExit for a
\* pack without README.md (main() hands it none: _discover_product_packs
\* keeps the directories that have one), without a TOIL ID or with several
BRP_candidate_from_pack(pack) ==
    LET matches == Dedupe(pack.ids)
        meta == BRP_load_pack_metadata(pack.metadata)
    IN  IF ~pack.readme THEN [ok |-> FALSE, err |-> "missing_readme"]
        ELSE IF matches = <<>> THEN [ok |-> FALSE, err |-> "no_toil_id"]
        ELSE IF Len(matches) > 1 THEN [ok |-> FALSE, err |-> "multiple_toil_ids"]
        ELSE [ok |-> TRUE, err |-> "",
              toil_id |-> matches[1],
              product_name |-> OrElse(Get(meta, "product_name", <<>>), pack.name),
              status |-> OrElse(Get(meta, "status", <<>>), Chars("Active")),
              license_state |->
                  OrElse(Get(meta, "license_state", <<>>), Chars("Open for Licensing")),
              category |-> OrElse(Get(meta, "category", <<>>), Chars("Uncategorized")),
              lead_creator |->
                  OrElse(Get(meta, "lead_creator", <<>>), Chars("Unknown")),
              aliases |-> BRP_split_csv(Get(meta, "aliases", <<>>)),
              legacy_ids |-> BRP_split_csv(Get(meta, "legacy_ids", <<>>))]

\* _discover_product_packs
BRP_discover_product_packs(entries) == SelectSeq(entries, LAMBDA e : e.readme)

\* _check_duplicate_toil_ids, never raising
BRP_has_duplicate_toil_ids_never(candidates) == FALSE

\* _check_duplicate_toil_ids raises
BRP_has_duplicate_toil_ids(candidates) ==
    \E i, j \in 1..Len(candidates) :
        i # j /\ candidates[i].toil_id = candidates[j].toil_id

\* _ensure_records_exist raises.  A toil_id is a match of TOIL_ID_RE: it
\* holds no "/", and RECORDS / f"{c.toil_id}.md" is a name in RECORDS.
BRP_records_missing(candidates, recs) ==
    \E i \in 1..Len(candidates) : candidates[i].toil_id \notin recs

\* sorted(candidates, key=lambda x: x.toil_id): candidates with the same
\* toil_id stay in the order they have (the sort is stable)
SortedByToilId(candidates) ==
    Tuple([k \in 1..Len(candidates) |->
              candidates[CHOOSE i \in 1..Len(candidates) :
                  Cardinality({j \in 1..Len(candidates) :
                      \/ StrLess(candidates[j].toil_id, candidates[i].toil_id)
                      \/ /\ candidates[j].toil_id = candidates[i].toil_id
                         /\ j < i}) = k - 1]])

\* An item that holds aliases and legacy_ids even when they are empty
BRP_item_all_keys(c) ==
    [toil_id |-> c.toil_id, product_name |-> c.product_name, category |-> c.category,
     lead_creator |-> c.lead_creator, status |-> c.status,
     license_state |-> c.license_state, aliases |-> c.aliases,
     legacy_ids |-> c.legacy_ids]

\* The item _write_exports makes of a candidate
BRP_item(c) ==
    WithOptionalLists([toil_id |-> c.toil_id,
                       product_name |-> c.product_name,
                       category |-> c.category,
                       lead_creator |-> c.lead_creator,
                       status |-> c.status,
                       license_state |-> c.license_state],
                      c.aliases, c.legacy_ids)

\* The fixed lines _write_candidate_table begins the table with.
TableTitle ==
    <<"#", " ", "C", "a", "n", "d", "i", "d", "a", "t", "e", " ", "P", "r",
      "o", "d", "u", "c", "t", " ", "I", "n", "d", "e", "x", " ", "T", "a",
      "b", "l", "e", " ", "(", "f", "r", "o", "m", " ", "p", "r", "o", "d",
      "u", "c", "t", "s", " ", "r", "e", "p", "o", ")">>

TableNote ==
    <<"T", "h", "i", "s", " ", "f", "i", "l", "e", " ", "i", "s", " ", "g",
      "e", "n", "e", "r", "a", "t", "e", "d", " ", "f", "o", "r", " ", "r",
      "e", "v", "i", "e", "w", ".", " ", "I", "t", " ", "m", "u", "s", "t",
      " ", "b", "e", " ", "m", "a", "n", "u", "a", "l", "l", "y", " ", "r",
      "e", "c", "o", "n", "c", "i", "l", "e", "d", " ", "w", "i", "t", "h",
      " ", "i", "n", "d", "e", "x", "/", "T", "O", "I", "L", "_", "P", "r",
      "o", "d", "u", "c", "t", "_", "I", "n", "d", "e", "x", ".", "m", "d",
      ".">>

TableHeader ==
    <<"|", " ", "T", "O", "I", "L", " ", "I", "D", " ", "|", " ", "P", "r",
      "o", "d", "u", "c", "t", " ", "N", "a", "m", "e", " ", "|", " ", "C",
      "a", "t", "e", "g", "o", "r", "y", " ", "|", " ", "L", "e", "a", "d",
      " ", "C", "r", "e", "a", "t", "o", "r", " ", "|", " ", "S", "t", "a",
      "t", "u", "s", " ", "|", " ", "L", "i", "c", "e", "n", "s", "e", " ",
      "S", "t", "a", "t", "e", " ", "|", " ", "A", "l", "i", "a", "s", "e",
      "s", " ", "(", "O", "p", "t", "i", "o", "n", "a", "l", ")", " ", "|",
      " ", "L", "e", "g", "a", "c", "y", " ", "I", "D", "s", " ", "(", "O",
      "p", "t", "i", "o", "n", "a", "l", ")", " ", "|">>

TableSeparator ==
    <<"|", "-", "-", "-", "|", "-", "-", "-", "|", "-", "-", "-", "|", "-",
      "-", "-", "|", "-", "-", "-", "|", "-", "-", "-", "|", "-", "-", "-",
      "|", "-", "-", "-", "|">>

\* The line _write_candidate_table makes of a candidate:
\* "| " + " | ".join(cells) + " |"
BRP_table_row(c) ==
    <<"|", " ">>
        \o Join(<<c.toil_id, c.product_name, c.category, c.lead_creator,
                  c.status, c.license_state, Join(c.aliases, <<",", " ">>),
                  Join(c.legacy_ids, <<",", " ">>)>>,
                <<" ", "|", " ">>)
        \o <<" ", "|">>

\* The text _write_candidate_table writes for the candidates in sorted
\* order: "\n".join(lines) + "\n"
BRP_table_text(sorted) ==
    Join(<<TableTitle, <<>>, TableNote, <<>>, TableHeader, TableSeparator>>
             \o Tuple([i \in 1..Len(sorted) |-> BRP_table_row(sorted[i])]),
         <<"\n">>) \o <<"\n">>

\* out.write_text(text, encoding="utf-8"): the file is opened, and so
\* created empty, before the text is encoded.
BRP_write_text(text) ==
    IF EncodeRaises(text) THEN EmptyText
    ELSE [fmt |-> "lf", data |-> MdTable(text)]

\* The three files _write_exports and _write_candidate_table leave.
\* json.dumps writes ASCII only (ensure_ascii), so the JSON files can
\* always be encoded; the table is left empty when its text cannot.
BRP_generated(candidates) ==
    LET sorted == SortedByToilId(candidates)
        legacy_items == Tuple([i \in 1..Len(sorted) |-> BRP_item(sorted[i])])
    IN  [legacy |-> Dumps(JList(legacy_items)),
         v1 |-> Dumps(V1Object(legacy_items)),
         table |-> BRP_write_text(BRP_table_text(sorted))]

NoFiles == [legacy |-> Missing, v1 |-> Missing, table |-> Missing]

ALL_EXPORTS == <<LEGACY_EXPORT, V1_EXPORT, CANDIDATE_TABLE>>

FileOf(files, rel) ==
    IF rel = LEGACY_EXPORT THEN files.legacy
    ELSE IF rel = V1_EXPORT THEN files.v1
    ELSE files.table

\* committed.read_bytes() != generated.read_bytes()
BRP_differs(committed, generated) == read_bytes(committed) # read_bytes(generated)

\* diffs of main(): the committed files that are missing or differ
BRP_diffs(exp, generated) ==
    SelectSeq(ALL_EXPORTS,
              LAMBDA rel : \/ ~Exists(FileOf(exp, rel))
                           \/ BRP_differs(FileOf(exp, rel), FileOf(generated, rel)))

\* The candidates of main(), or the first error (lines 258-270).
BRP_candidates(root, recs) ==
    LET packs == BRP_discover_product_packs(root.entries)
        cands == Tuple([i \in 1..Len(packs) |-> BRP_candidate_from_pack(packs[i])])
        bad == {i \in 1..Len(cands) : ~cands[i].ok}
    IN  IF ~root.isdir THEN [ok |-> FALSE, err |-> "not_a_directory", list |-> <<>>]
        ELSE IF packs = <<>> THEN [ok |-> FALSE, err |-> "no_packs", list |-> <<>>]
        ELSE IF bad # {}
        THEN [ok |-> FALSE,
              err |-> cands[CHOOSE i \in bad : \A j \in bad : i <= j].err,
              list |-> <<>>]
        ELSE IF BRP_has_duplicate_toil_ids(cands)
        THEN [ok |-> FALSE, err |-> "duplicate_toil_ids", list |-> <<>>]
        ELSE IF BRP_records_missing(cands, recs)
        THEN [ok |-> FALSE, err |-> "missing_records", list |-> <<>>]
        ELSE [ok |-> TRUE, err |-> "", list |-> cands]

\* Where a --check run leaves the module global EXPORTS: at the exports
\* directory of its temporary directory, removed when the run ends.
BRP_EXPORTS_after_check(before) == "tmp"

\* A --check run that writes into the repository's exports directory
BRP_check_target_repo(exp, stray, generated) == [exports |-> generated, stray |-> stray]

\* The files a --check run leaves: it writes the generated files into a
\* fresh temporary directory, which is removed with them.
BRP_check_target(exp, stray, generated) == [exports |-> exp, stray |-> NoFiles]

\* main(argv) of build_registry_from_products from line 272 on, cands being
\* what lines 258-270 made of the products checkout (BRP_candidates), with
\* the module global EXPORTS at `global` ("repo": ROOT/exports; "tmp": the
\* exports directory of the last --check run's temporary directory, whose
\* files are `stray`): the status, the report, the files and the global
\* left.  A run that _write_candidate_table ends with UnicodeEncodeError has
\* exit status 1 and leaves the two JSON files written and the table empty
\* (with --check, in the temporary directory, which is then removed); the
\* table is empty in no other run, its text beginning with the title.
BRP_main_from(cands, check, exp, global, stray) ==
    LET Written(generated) ==
            [exit |-> 0, err |-> "", report |-> <<>>,
             exports |-> IF global = "repo" THEN generated ELSE exp,
             EXPORTS |-> global,
             stray |-> IF global = "repo" THEN stray ELSE generated,
             generated |-> generated]
        Checked(generated, diffs, after) ==
            [exit |-> IF diffs # <<>> THEN 4 ELSE 0, err |-> "",
             report |-> diffs, exports |-> after.exports,
             EXPORTS |-> BRP_EXPORTS_after_check(global),
             stray |-> after.stray, generated |-> generated]
        Raised(generated, after) ==
            IF check
            THEN [exit |-> 1, err |-> "UnicodeEncodeError", report |-> <<>>,
                  exports |-> after.exports,
                  EXPORTS |-> BRP_EXPORTS_after_check(global),
                  stray |-> after.stray, generated |-> generated]
            ELSE [Written(generated) EXCEPT !.exit = 1,
                                            !.err = "UnicodeEncodeError",
                                            !.generated = NoFiles]
        Run(generated) ==
            IF generated.table = EmptyText
            THEN Raised(generated, BRP_check_target(exp, stray, generated))
            ELSE IF check
            THEN Checked(generated, BRP_diffs(exp, generated),
                         BRP_check_target(exp, stray, generated))
            ELSE Written(generated)
    IN  IF ~cands.ok
        THEN [exit |-> 1, err |-> cands.err, report |-> <<>>, exports |-> exp,
              EXPORTS |-> global, stray |-> stray, generated |-> NoFiles]
        ELSE Run(BRP_generated(cands.list))

\* main(argv) of build_registry_from_products on the products checkout root
\* and the files.
BRP_main(root, check, recs, exp, global, stray) ==
    BRP_main_from(BRP_candidates(root, recs), check, exp, global, stray)

(***************************************************************************)
(* Bounds and the inputs drawn from them                                   *)
(***************************************************************************)
\* Rows of an index table, lines of a text handed to the parser, product
\* packs of a products checkout.
MaxRows == 2
MaxLines == 4
MaxPacks == 2

IdA == ToilIdPrefix \o <<"0", "0", "1", "-", "A">>
\* Its third digit is U+0662 ARABIC-INDIC DIGIT TWO.
IdB == ToilIdPrefix \o <<"0", "0", "U+0662", "-", "B", "2">>
IdBad == ToilIdPrefix \o <<"0", "3", "-", "C">>

\* "| c1 | c2 | ... |" as line.split("|")
Render(cells) ==
    <<<<>>>> \o [i \in 1..Len(cells) |-> <<" ">> \o cells[i] \o <<" ">>] \o <<<<>>>>

HeaderLine ==
    Render(<<ColToilId, ColProductName, ColCategory, ColLeadCreator, ColStatus,
             ColLicenseState, ColAliasesOpt, ColLegacyIdsOpt>>)

SepLine == Render([i \in 1..8 |-> <<"-", "-", "-">>])

RowLine(id, aliases, legacy_ids) ==
    Render(<<id, <<"N">>, <<"C">>, <<"L">>, <<"S">>, <<"O">>, aliases, legacy_ids>>)

\* "See the | TOIL ID | column": prose that mentions the column.
MentionLine == <<<<"S", "e", "e", " ">>, <<" ">> \o ColToilId \o <<" ">>, <<" ", "c", "o", "l">>>>

\* The optional cells of a row: Aliases, Legacy IDs.  U+001F is white
\* space that does not end a line.
OptionalCells ==
    {<<<<>>, <<>>>>,
     <<<<"-">>, <<>>>>,
     <<<<"U+001F", "x", ",", " ", "y">>, <<>>>>,
     <<<<>>, <<"L", "1">>>>}

\* The rows of an index.  Two have a TOIL ID cell that is a path: "./<IdA>"
\* names the record file of IdA, "/x/<IdA>" is absolute and names no file.
Rows ==
    {RowLine(IdA, oc[1], oc[2]) : oc \in OptionalCells}
    \cup {RowLine(IdB, <<>>, <<>>), RowLine(IdBad, <<>>, <<>>),
          RowLine(<<".", "/">> \o IdA, <<>>, <<>>),
          RowLine(<<"/", "x", "/">> \o IdA, <<>>, <<>>)}

SeqsUpTo(S, n) == UNION {[1..k -> S] : k \in 0..n}

\* The index files of the registry: one table, and the same after a line
\* of prose that mentions the TOIL ID column.
IndexTexts ==
    {<<HeaderLine, SepLine>> \o rows : rows \in SeqsUpTo(Rows, MaxRows)}
    \cup {<<MentionLine, HeaderLine, SepLine>> \o rows : rows \in SeqsUpTo(Rows, 1)}

\* The lines of the texts handed to the parser alone: the header, a header
\* that lacks required columns, the separator, a row, a row with too few
\* cells, prose that mentions the column, the prose "# Index", a blank line.
ParserLines ==
    {HeaderLine, Render(<<ColToilId, ColProductName>>), SepLine,
     RowLine(IdA, <<>>, <<>>), Render(<<IdA, <<"N">>>>), MentionLine,
     <<Chars("# Index")>>, <<<<>>>>}

ParserTexts == SeqsUpTo(ParserLines, MaxLines)

RecordSets == {{IdA, IdB}, {IdA}}

FullMetadata ==
    [product_name |-> <<"N", "2", "\n">>, status |-> <<"S">>,
     license_state |-> <<"O">>, category |-> <<"C", " ", "|", " ", "D">>,
     lead_creator |-> <<"L">>,
     aliases |-> <<<<"x">>, <<" ", "y">>>>, legacy_ids |-> <<<<"L", "1">>>>]

\* Other names in the same metadata: the row of the candidate table reads
\* the same, "| ... | N2 | C | D | L | ...".
PipeMetadata ==
    [FullMetadata EXCEPT !.product_name = <<"N", "2", " ", "|", " ", "C">>,
                         !.category = <<"D">>]

\* A blank product_name and a blank alias: both are ignored.
PartialMetadata ==
    [product_name |-> <<" ">>, category |-> <<"C">>, aliases |-> <<<<"x">>, <<" ">>>>]

Pack(n, readme, ids, metadata) ==
    [name |-> <<"P", n>>, readme |-> readme, ids |-> ids, metadata |-> metadata]

\* Packs 1, 4, 5 and 6 have no metadata.json (<<>>, the empty dict); the
\* metadata.json of pack 8 is {"product_name": "\ud800"}: a lone surrogate,
\* which json.loads accepts.
Packs ==
    {Pack("1", TRUE, <<IdB>>, <<>>),
     Pack("2", TRUE, <<IdA, IdA>>, FullMetadata),
     Pack("3", TRUE, <<IdA>>, PartialMetadata),
     Pack("4", FALSE, <<>>, <<>>),
     Pack("5", TRUE, <<>>, <<>>),
     Pack("6", TRUE, <<IdA, IdB>>, <<>>),
     Pack("7", TRUE, <<IdA>>, PipeMetadata),
     Pack("8", TRUE, <<IdA>>, [product_name |-> <<"U+D800">>])}

\* The products checkouts: no directory, or packs in the order of their
\* names (sorted(products_root.iterdir())).
ProductRoots ==
    {[isdir |-> FALSE, entries |-> <<>>]}
    \cup {[isdir |-> TRUE, entries |-> e] :
             e \in {x \in SeqsUpTo(Packs, MaxPacks) :
                       \A i \in 1..(Len(x) - 1) : StrLess(x[i].name, x[i + 1].name)}}

\* BRP_candidates on every products checkout and every set of record
\* files, each worked out once: discovery and validation read the checkout
\* and the record files only.
BRP_candidates_of ==
    Fcn([root \in ProductRoots, recs \in SUBSET UNION RecordSets |->
            BRP_candidates(root, recs)])

(***************************************************************************)
(* State                                                                   *)
(*   index         index/TOIL_Product_Index.md, its lines                  *)
(*   records       the ids with a records/<id>.md                          *)
(*   exports       the three files of ROOT/exports                         *)
(*   EXPORTS       the module global of build_registry_from_products       *)
(*   strayExports  the files of the directory EXPORTS names when that is   *)
(*                 not ROOT/exports                                        *)
(*   last          the last run: tool, mode, exit status, report, error,   *)
(*                 what it returned or generated, and, where that is       *)
(*                 noted of the products checkout it was given, whether    *)
(*                 two of its packs name the same TOIL ID                  *)
(***************************************************************************)
NoRun ==
    [tool |-> "none", check |-> FALSE, exit |-> 0, report |-> <<>>, err |-> "",
     result |-> <<>>, same_id_packs |-> FALSE]

\* Two product packs of the checkout (directories with a README.md) name the
\* same TOIL ID in their README.md.
C13_PacksRepeatToilId(root) ==
    \E i, j \in 1..Len(root.entries) :
        /\ i # j
        /\ root.entries[i].readme
        /\ root.entries[j].readme
        /\ \E m \in 1..Len(root.entries[i].ids), n \in 1..Len(root.entries[j].ids) :
               root.entries[i].ids[m] = root.entries[j].ids[n]

TypeOK ==
    /\ EXPORTS \in {"repo", "tmp"}
    /\ last.tool \in {"none", "edit", "parse", "build_exports", "build_product_index",
                      "validate_registry", "build_registry_from_products"}
    /\ last.exit \in {0, 1, 4}

Init ==
    /\ index \in IndexTexts
    /\ records \in RecordSets
    /\ exports = NoFiles
    /\ EXPORTS = "repo"
    /\ strayExports = NoFiles
    /\ last = NoRun

\* python3 tools/build_product_index.py [--check]
RunBuildProductIndex ==
    \E check \in BOOLEAN :
        \E r \in {BPI_main(index, records, exports, check)} :
            /\ exports' = r.exports
            /\ last' = [tool |-> "build_product_index", check |-> check,
                        exit |-> r.exit, report |-> r.report, err |-> r.err,
                        result |-> <<>>, same_id_packs |-> FALSE]
            /\ UNCHANGED <<index, records, EXPORTS, strayExports>>

\* python3 tools/validate_registry.py
RunValidateRegistry ==
    \E r \in {VR_main(index, records, exports)} :
        /\ last' = [tool |-> "validate_registry", check |-> FALSE, exit |-> r.exit,
                    report |-> <<>>, err |-> r.raised, result |-> r.errors,
                    same_id_packs |-> FALSE]
        /\ UNCHANGED <<index, records, exports, EXPORTS, strayExports>>

\* python3 tools/build_registry_from_products.py --products <root> [--check],
\* as one call of main(argv) in a process that stays alive between calls
BuildRegistryFromProducts(root, check, same_id_packs) ==
    \E r \in {BRP_main_from(BRP_candidates_of[root, records], check, exports,
                            EXPORTS, strayExports)} :
        /\ exports' = r.exports
        /\ EXPORTS' = r.EXPORTS
        /\ strayExports' = r.stray
        /\ last' = [tool |-> "build_registry_from_products", check |-> check,
                    exit |-> r.exit, report |-> r.report, err |-> r.err,
                    result |-> r.generated, same_id_packs |-> same_id_packs]
        /\ UNCHANGED <<index, records>>

\* A run on any products checkout, nothing noted of the checkout.
RunBuildRegistryFromProducts ==
    \E root \in ProductRoots, check \in BOOLEAN :
        BuildRegistryFromProducts(root, check, FALSE)

\* A run on any products checkout, with the note of whether two of its
\* packs name the same TOIL ID.
RunBuildRegistryFromProductsNoted ==
    \E root \in ProductRoots, check \in BOOLEAN :
        BuildRegistryFromProducts(root, check, C13_PacksRepeatToilId(root))

\* _parse_markdown_table(md_text) of build_product_index on its own
RunParseMarkdownTable ==
    \E r \in {BPI_parse_markdown_table(index)} :
        /\ last' = [tool |-> "parse", check |-> FALSE,
                    exit |-> IF r.ok THEN 0 ELSE 1, report |-> <<>>, err |-> r.err,
                    result |-> r.rows, same_id_packs |-> FALSE]
        /\ UNCHANGED <<index, records, exports, EXPORTS, strayExports>>

(***************************************************************************)
(* The environment: somebody changes a committed export file.              *)
(***************************************************************************)
Reformatted(file) ==
    IF file.fmt = "lf" THEN {[file EXCEPT !.fmt = "crlf"]} ELSE {}

\* What exports/product_index.json may be changed to.
LegacyEdits(file) ==
    {Missing, Garbage} \cup Reformatted(file)
    \cup (IF file.fmt = "lf" /\ IsList(file.data) /\ file.data.list # <<>>
          THEN {Dumps(JList(Tail(file.data.list))), Dumps(V1Object(file.data.list))}
          ELSE {})

IsV1Object(data) ==
    /\ IsDict(data)
    /\ DOMAIN data.dict = {"schema_version", "products"}
    /\ data.dict.schema_version = SCHEMA_VERSION
    /\ IsList(data.dict.products)
    /\ data.dict.products.list # <<>>

\* What exports/product_index_v1.json may be changed to.
V1Edits(file) ==
    {Missing, Garbage} \cup Reformatted(file)
    \cup (IF file.fmt = "lf" /\ IsV1Object(file.data)
          THEN LET products == file.data.dict.products.list
               IN  {Dumps(V1Object(Tail(products))),
                    Dumps(JDict([schema_version |-> "0.9.0",
                                 products |-> JList(products)])),
                    Dumps(JDict([schema_version |-> SCHEMA_VERSION])),
                    Dumps(JDict([schema_version |-> SCHEMA_VERSION,
                                 products |-> JNone])),
                    Dumps(JList(products))}
          ELSE {})

EditExport ==
    /\ \/ \E c \in LegacyEdits(exports.legacy) :
              exports' = [exports EXCEPT !.legacy = c]
       \/ \E c \in V1Edits(exports.v1) :
              exports' = [exports EXCEPT !.v1 = c]
    /\ exports' # exports
    /\ last' = [NoRun EXCEPT !.tool = "edit"]
    /\ UNCHANGED <<index, records, EXPORTS, strayExports>>

\* Somebody deletes one of the committed export files as the tool wrote
\* them, or checks it out with \r\n line ends.
TouchExport ==
    /\ \A f \in {"legacy", "v1", "table"} : exports[f].fmt = "lf"
    /\ \E f \in {"legacy", "v1", "table"} :
           \E c \in {Missing, [exports[f] EXCEPT !.fmt = "crlf"]} :
               exports' = [exports EXCEPT ![f] = c]
    /\ last' = [NoRun EXCEPT !.tool = "edit"]
    /\ UNCHANGED <<index, records, EXPORTS, strayExports>>

\* Somebody deletes a record file.
DeleteRecord ==
    /\ \E id \in records : records' = records \ {id}
    /\ last' = [NoRun EXCEPT !.tool = "edit"]
    /\ UNCHANGED <<index, exports, EXPORTS, strayExports>>

(***************************************************************************)
(* Specifications                                                          *)
(***************************************************************************)
\* The index tools on a registry whose exports change under them.
Next ==
    \/ RunBuildProductIndex
    \/ RunValidateRegistry
    \/ EditExport
    \/ DeleteRecord

Spec == Init /\ [][Next]_vars

\* The sync helper, called again and again in one process.
InitSync ==
    /\ index = <<HeaderLine, SepLine, RowLine(IdA, <<"x">>, <<>>), RowLine(IdB, <<>>, <<>>)>>
    /\ records \in RecordSets
    /\ exports = NoFiles
    /\ EXPORTS = "repo"
    /\ strayExports = NoFiles
    /\ last = NoRun

NextSync ==
    \/ RunBuildRegistryFromProducts
    \/ TouchExport

SpecSync == InitSync /\ [][NextSync]_vars

\* The parser of build_product_index on every text within the bounds.
InitParse ==
    /\ index \in ParserTexts
    /\ records = {IdA, IdB}
    /\ exports = NoFiles
    /\ EXPORTS = "repo"
    /\ strayExports = NoFiles
    /\ last = NoRun

SpecParse == InitParse /\ [][RunParseMarkdownTable]_vars

(***************************************************************************)
(* build_exports() of build_product_index on its own, on index tables      *)
(* whose rows may have empty cells.                                        *)
(***************************************************************************)
\* A row given by its six required cells, the optional cells empty.
RequiredRowLine(cells) == Render(cells \o <<<<>>, <<>>>>)

FilledCells(id) == <<id, <<"N">>, <<"C">>, <<"L">>, <<"S">>, <<"O">>>>

\* Rows with every required cell filled, and rows with one of them empty.
BuildRows ==
    {RequiredRowLine(FilledCells(IdA)), RequiredRowLine(FilledCells(IdB))}
    \cup {RequiredRowLine([FilledCells(IdA) EXCEPT ![k] = <<>>]) : k \in 1..6}

BuildTexts == {<<HeaderLine, SepLine>> \o rows : rows \in SeqsUpTo(BuildRows, MaxRows)}

\* build_exports(): products, or SystemExit
RunBuildExports ==
    \E r \in {BPI_build_exports(index, records)} :
        /\ last' = [tool |-> "build_exports", check |-> FALSE,
                    exit |-> IF r.ok THEN 0 ELSE 1, report |-> <<>>, err |-> r.err,
                    result |-> r.products, same_id_packs |-> FALSE]
        /\ UNCHANGED <<index, records, exports, EXPORTS, strayExports>>

InitBuild ==
    /\ index \in BuildTexts
    /\ records \in RecordSets
    /\ exports = NoFiles
    /\ EXPORTS = "repo"
    /\ strayExports = NoFiles
    /\ last = NoRun

SpecBuild == InitBuild /\ [][RunBuildExports]_vars

(***************************************************************************)
(* The two tools that write exports, run one after the other on a registry *)
(* whose index may repeat a TOIL ID.                                       *)
(***************************************************************************)
WriteIndexes ==
    {<<HeaderLine, SepLine, RowLine(IdA, <<>>, <<>>)>> \o rows :
        rows \in SeqsUpTo({RowLine(IdA, <<"x">>, <<>>), RowLine(IdB, <<>>, <<>>)}, 1)}

InitWrite ==
    /\ index \in WriteIndexes
    /\ records = {IdA, IdB}
    /\ exports = NoFiles
    /\ EXPORTS = "repo"
    /\ strayExports = NoFiles
    /\ last = NoRun

NextWrite ==
    \/ RunBuildProductIndex
    \/ RunBuildRegistryFromProductsNoted

SpecWrite == InitWrite /\ [][NextWrite]_vars

(***************************************************************************)
(* The index tools on a registry whose index is edited after the exports   *)
(* were built: rows are added to the table and removed from it.            *)
(***************************************************************************)
\* The TOIL IDs that have a record file: two that match TOIL_ID_RE, and
\* four that do not (two digits, a letter among the digits, a lower-case
\* letter, no segment).
ValidateIds ==
    {IdA, IdB, IdBad,
     ToilIdPrefix \o <<"0", "X", "1", "-", "A">>,
     ToilIdPrefix \o <<"0", "0", "1", "-", "a">>,
     ToilIdPrefix \o <<"0", "0", "1">>}

\* The rows added to the index: one for each of those, one whose TOIL ID
\* cell is the path "./<IdA>", and one with too few cells.
ValidateRows ==
    {RowLine(id, <<>>, <<>>) : id \in ValidateIds \cup {<<".", "/">> \o IdA}}
    \cup {Render(<<IdA, <<"N">>>>)}

\* Somebody adds a row at the end of the index table, or removes its last
\* row.
EditIndex ==
    /\ \/ /\ Len(index) < 2 + MaxRows
          /\ \E row \in ValidateRows : index' = Append(index, row)
       \/ /\ Len(index) > 2
          /\ index' = SubSeq(index, 1, Len(index) - 1)
    /\ last' = [NoRun EXCEPT !.tool = "edit"]
    /\ UNCHANGED <<records, exports, EXPORTS, strayExports>>

\* A table without rows yet; the record file of IdA may be missing.
InitValidate ==
    /\ index = <<HeaderLine, SepLine>>
    /\ records \in {ValidateIds, ValidateIds \ {IdA}}
    /\ exports = NoFiles
    /\ EXPORTS = "repo"
    /\ strayExports = NoFiles
    /\ last = NoRun

NextValidate ==
    \/ RunBuildProductIndex
    \/ RunValidateRegistry
    \/ EditIndex

SpecValidate == InitValidate /\ [][NextValidate]_vars

(***************************************************************************)
(* Claims                                                                  *)
(***************************************************************************)
\* C1: whenever build_product_index in write mode has succeeded and
\* validate_registry runs next, with no file changed in between, the
\* validator exits 0.
C1_ValidatorAcceptsFreshExports ==
    [][(/\ last.tool = "build_product_index"
        /\ ~last.check
        /\ last.exit = 0
        /\ last'.tool = "validate_registry")
       => last'.exit = 0]_vars

\* C2: a successful call of build_registry_from_products.main without
\* --check leaves the three generated files in the repository's exports
\* directory, whatever calls preceded it.
C2_WriteGoesToRepositoryExports ==
    (/\ last.tool = "build_registry_from_products"
     /\ ~last.check
     /\ last.exit = 0)
    => exports = last.result

\* The export files that are not byte for byte the serialization derived
\* from the index, for an index that builds to `products`.
C3_Differing(products) ==
    SelectSeq(<<LEGACY_EXPORT, V1_EXPORT>>,
              LAMBDA rel :
                  FileOf(exports, rel)
                      # FileOf([legacy |-> Dumps(JList(products)),
                                v1 |-> Dumps(V1Object(products)),
                                table |-> Missing], rel))

\* C3: after build_product_index --check on an index that parses and
\* normalizes, the exit status is 4 if and only if a committed export is not
\* byte for byte the serialization derived from the index (a missing file
\* differs), and 0 otherwise; the report lists exactly the files that differ.
C3_CheckIsByteForByte ==
    (/\ last.tool = "build_product_index"
     /\ last.check
     /\ last.exit # 1)
    => \E d \in {C3_Differing(BPI_build_exports(index, records).products)} :
           /\ last.exit = (IF d # <<>> THEN 4 ELSE 0)
           /\ last.report = d

\* The header rows of the index containing a TOIL ID cell: a header row is
\* the row of a table that its separator row follows, so these are the
\* lines with a TOIL ID cell whose next line is a separator row.
C4_HeaderRows ==
    {i \in 1..Len(index) :
        SearchToilIdCell(index[i]) /\ i < Len(index) /\ is_separator(index[i + 1])}

\* The parser returned rows, all of them lines of the table under header h:
\* the lines after its separator row, in order, each a row of that table.
C4_RowsUnder(h) ==
    /\ last.exit = 0
    /\ last.result # <<>>
    /\ \A k \in 1..Len(last.result) :
           /\ h + 1 + k <= Len(index)
           /\ StartsWithPipe(index[h + 1 + k])
           /\ last.result[k]
                  = ZipDict(SplitCells(index[h]), SplitCells(index[h + 1 + k]))

\* C4: _parse_markdown_table of build_product_index aborts when the text
\* has no header row containing a TOIL ID cell and when it has more than
\* one; it returns rows only when there is exactly one, all taken from the
\* table under that header.
C4_OneHeaderRow ==
    last.tool = "parse"
    => /\ Cardinality(C4_HeaderRows) # 1 => last.exit = 1
       /\ last.exit = 0 => \E h \in C4_HeaderRows : C4_RowsUnder(h)

\* The parser returned the rows of the one table of a text, of which one
\* row repeats the header line: a line with a TOIL ID cell that is no
\* header row, no separator row following it.
C4_Witness ==
    /\ last.tool = "parse"
    /\ last.exit = 0
    /\ Cardinality(C4_HeaderRows) = 1
    /\ \E h \in C4_HeaderRows :
           /\ C4_RowsUnder(h)
           /\ \E k \in 1..Len(last.result) : index[h + 1 + k] = index[h]

\* Both export files exist and parse, the legacy export is a list, the v1
\* export an object with schema_version "1.0.0" and a non-empty list of
\* products, and the two lists are equal.
C5_ExportsConsistent ==
    /\ exports.legacy.fmt \in {"lf", "crlf"}
    /\ exports.v1.fmt \in {"lf", "crlf"}
    /\ DOMAIN exports.legacy.data = {"list"}
    /\ DOMAIN exports.v1.data = {"dict"}
    /\ "schema_version" \in DOMAIN exports.v1.data.dict
    /\ exports.v1.data.dict.schema_version = "1.0.0"
    /\ "products" \in DOMAIN exports.v1.data.dict
    /\ DOMAIN exports.v1.data.dict.products = {"list"}
    /\ exports.v1.data.dict.products.list # <<>>
    /\ exports.legacy.data.list = exports.v1.data.dict.products.list

\* C5: validate_registry exits 0 only if the exports are consistent (both
\* exist and parse, legacy is a list, v1 an object with schema_version
\* "1.0.0" and a non-empty products list equal to the legacy list); in every
\* other case it exits 1.
C5_ExitZeroOnlyIfExportsConsistent ==
    last.tool = "validate_registry"
    => IF C5_ExportsConsistent THEN last.exit \in {0, 1} ELSE last.exit = 1

\* The validator passed a registry whose exports hold two products.
C5_Witness ==
    /\ last.tool = "validate_registry"
    /\ last.exit = 0
    /\ C5_ExportsConsistent
    /\ Len(exports.legacy.data.list) = 2

\* T4L-TOIL-<3 digits>(-<A-Z0-9 segment>)+, read piece by piece: between
\* the hyphens of tid stand "T4L", "TOIL", three decimal digits, and one or
\* more segments, each of one or more of the characters A-Z and 0-9.
C6_IsToilId(tid) ==
    \E piece \in {Split(tid, "-")} :
        /\ Len(piece) >= 4
        /\ piece[1] = <<"T", "4", "L">>
        /\ piece[2] = <<"T", "O", "I", "L">>
        /\ Len(piece[3]) = 3
        /\ \A i \in 1..3 : piece[3][i] \in Digits
        /\ \A k \in 4..Len(piece) :
               /\ piece[k] # <<>>
               /\ \A i \in 1..Len(piece[k]) : piece[k][i] \in UpperCase \cup AsciiDigits

\* The index parses to at least one row, every row has a TOIL ID of that
\* pattern and a record file records/<TOIL ID>.md, and no two rows have the
\* same TOIL ID.
C6_IndexConsistent(parsed) ==
    /\ parsed.ok
    /\ parsed.rows # <<>>
    /\ \A i \in 1..Len(parsed.rows) :
           /\ C6_IsToilId(VR_tid(parsed.rows[i]))
           /\ VR_tid(parsed.rows[i]) \in records
    /\ \A i, j \in 1..Len(parsed.rows) :
           i # j => VR_tid(parsed.rows[i]) # VR_tid(parsed.rows[j])

\* C6: validate_registry exits 0 only if the index table parses with at
\* least one row, every row's TOIL ID matches the pattern
\* T4L-TOIL-<3 digits>(-<A-Z0-9 segment>)+, every row has a record file, and
\* no TOIL ID occurs in two rows.
C6_ExitZeroOnlyIfIndexConsistent ==
    (last.tool = "validate_registry" /\ last.exit = 0)
    => C6_IndexConsistent(VR_parse_markdown_table(index))

\* The validator passed an index of two rows, the second added after the
\* exports were built: they hold one product.
C6_Witness ==
    /\ last.tool = "validate_registry"
    /\ last.exit = 0
    /\ Len(index) = 4
    /\ C6_IndexConsistent(VR_parse_markdown_table(index))
    /\ exports.legacy.fmt = "lf"
    /\ Len(exports.legacy.data.list) = 1

\* The v1 export has a product with this TOIL ID whose list under key is
\* cells.
C7_Exported(tid, key, cells) ==
    \E k \in 1..Len(exports.v1.data.dict.products.list) :
        \E p \in {exports.v1.data.dict.products.list[k]} :
            /\ "toil_id" \in DOMAIN p
            /\ p.toil_id = tid
            /\ key \in DOMAIN p
            /\ p[key] = cells

\* C7: whenever validate_registry exits 0, every index row whose Aliases
\* (Legacy IDs) cell yields a non-empty list has a product with its TOIL ID
\* in the v1 export whose aliases (legacy_ids) is that list.
C7_OptionalFieldsNotDropped ==
    (last.tool = "validate_registry" /\ last.exit = 0)
    => \E parsed \in {VR_parse_markdown_table(index)} :
           \A i \in 1..Len(parsed.rows) :
               \E r \in {parsed.rows[i]} :
                   /\ VR_split_list(VR_aliases_cell(r)) # <<>>
                      => C7_Exported(VR_tid(r), "aliases",
                                     VR_split_list(VR_aliases_cell(r)))
                   /\ VR_split_list(VR_legacy_ids_cell(r)) # <<>>
                      => C7_Exported(VR_tid(r), "legacy_ids",
                                     VR_split_list(VR_legacy_ids_cell(r)))

\* C8: no run of build_registry_from_products, in any mode, succeeding or
\* failing, changes the index or the records, and a --check run leaves the
\* three files of the repository's exports directory as they were.
C8_NonDestructive ==
    [][last'.tool = "build_registry_from_products"
       => /\ index' = index
          /\ records' = records
          /\ last'.check => exports' = exports]_vars

\* A --check run found every committed file out of date and left them so.
C8_Witness ==
    /\ last.tool = "build_registry_from_products"
    /\ last.check
    /\ last.exit = 4
    /\ Len(last.report) = 3
    /\ \A f \in {"legacy", "v1", "table"} :
           exports[f].fmt = "lf" /\ exports[f] # last.result[f]

\* Some committed export is missing or is not byte for byte the file the
\* run generated.
C9_SomeFileDiffers ==
    \E f \in {"legacy", "v1", "table"} :
        exports[f].fmt = "missing" \/ exports[f] # last.result[f]

\* The errors that end main() in pack discovery (lines 258-266) and in the
\* validation of the candidates (lines 268-270).
C9_DiscoveryAndValidationErrors ==
    {"not_a_directory", "no_packs", "no_toil_id", "multiple_toil_ids",
     "duplicate_toil_ids", "missing_records"}

\* C9: build_registry_from_products --check, when discovery and validation
\* of the candidates succeed, returns 4 if and only if one of the three
\* committed files is missing or differs byte for byte from the generated
\* one, and 0 otherwise.
C9_CheckReturnsFourIffDrift ==
    (/\ last.tool = "build_registry_from_products"
     /\ last.check
     /\ last.err \notin C9_DiscoveryAndValidationErrors)
    => last.exit = (IF C9_SomeFileDiffers THEN 4 ELSE 0)

\* The files of the directory the last write went to.
C10_Written == IF EXPORTS = "repo" THEN exports ELSE strayExports

\* A product of a schema v1 export: the six required keys, and no other key
\* but aliases and legacy_ids, each a non-empty list when present.
C10_IsProduct(p) ==
    /\ {"toil_id", "product_name", "category", "lead_creator", "status",
        "license_state"} \subseteq DOMAIN p
    /\ DOMAIN p \subseteq {"toil_id", "product_name", "category", "lead_creator",
                           "status", "license_state", "aliases", "legacy_ids"}
    /\ "aliases" \in DOMAIN p => p.aliases # <<>>
    /\ "legacy_ids" \in DOMAIN p => p.legacy_ids # <<>>

\* C10: after a successful write run of build_registry_from_products the
\* written product_index_v1.json is an object with exactly the keys
\* schema_version ("1.0.0") and products, every product has the six required
\* keys and no other but a non-empty aliases and a non-empty legacy_ids, and
\* the written product_index.json is a list equal to products.
C10_WrittenExportsAreSchemaV1 ==
    (/\ last.tool = "build_registry_from_products"
     /\ ~last.check
     /\ last.exit = 0)
    => /\ C10_Written.v1.fmt = "lf"
       /\ DOMAIN C10_Written.v1.data = {"dict"}
       /\ DOMAIN C10_Written.v1.data.dict = {"schema_version", "products"}
       /\ C10_Written.v1.data.dict.schema_version = "1.0.0"
       /\ DOMAIN C10_Written.v1.data.dict.products = {"list"}
       /\ \A k \in 1..Len(C10_Written.v1.data.dict.products.list) :
              C10_IsProduct(C10_Written.v1.data.dict.products.list[k])
       /\ C10_Written.legacy.fmt = "lf"
       /\ DOMAIN C10_Written.legacy.data = {"list"}
       /\ C10_Written.legacy.data.list = C10_Written.v1.data.dict.products.list

\* A write run exported two products, one with aliases and legacy ids and
\* one with neither.
C10_Witness ==
    /\ last.tool = "build_registry_from_products"
    /\ ~last.check
    /\ last.exit = 0
    /\ Len(C10_Written.legacy.data.list) = 2
    /\ \E k \in 1..2 : "aliases" \in DOMAIN C10_Written.legacy.data.list[k]
                       /\ "legacy_ids" \in DOMAIN C10_Written.legacy.data.list[k]
    /\ \E k \in 1..2 : DOMAIN C10_Written.legacy.data.list[k]
                          = {"toil_id", "product_name", "category", "lead_creator",
                             "status", "license_state"}

\* The index table parses and every row normalizes: each row has a
\* well-formed TOIL ID with a record file, and no TOIL ID is in two rows.
C11_IndexBuilds(parsed) ==
    /\ parsed.ok
    /\ \A i \in 1..Len(parsed.rows) :
           \E tid \in {Strip(parsed.rows[i][ColToilId])} :
               /\ MatchToilId(tid)
               /\ tid \in records
               /\ \A j \in 1..(i - 1) : Strip(parsed.rows[j][ColToilId]) # tid

\* C11: a run of build_product_index changes an export file only if the
\* index table parsed and every row normalized; when parsing fails or a row
\* has an invalid TOIL ID, no record file or a repeated TOIL ID, the run
\* stops with an error and both export files keep their content.
C11_ParseBeforeValidateBeforeExport ==
    [][last'.tool = "build_product_index"
       => \E builds \in {C11_IndexBuilds(BPI_parse_markdown_table(index))} :
              /\ exports' # exports => builds /\ ~last'.check /\ last'.exit = 0
              /\ ~builds => last'.exit = 1 /\ exports' = exports]_vars

\* A write run stopped at the second row, the first being valid, and the
\* exports written by an earlier run are still there.
C11_Witness ==
    /\ last.tool = "build_product_index"
    /\ ~last.check
    /\ last.exit = 1
    /\ last.err = "missing_record"
    /\ Len(index) = 4
    /\ Strip(index[3][2]) \in records
    /\ exports.legacy.fmt = "lf"
    /\ Len(exports.legacy.data.list) = 2

\* Some row of the index table has an empty required cell.
C12_SomeRequiredCellEmpty(parsed) ==
    \E i \in 1..Len(parsed.rows) :
        \E c \in 1..Len(required_cols) :
            Strip(parsed.rows[i][required_cols[c]]) = <<>>

\* C12: every product build_exports returns has the six required fields,
\* each with a non-empty value, and an index with a row whose required cell
\* is empty is rejected with an error.
C12_RequiredFieldsNonEmpty ==
    last.tool = "build_exports"
    => /\ \A k \in 1..Len(last.result) :
              \A f \in {"toil_id", "product_name", "category", "lead_creator",
                        "status", "license_state"} :
                  f \in DOMAIN last.result[k] /\ last.result[k][f] # <<>>
       /\ \E parsed \in {BPI_parse_markdown_table(index)} :
              parsed.ok /\ C12_SomeRequiredCellEmpty(parsed) => last.exit = 1

\* No two products of the list have the same toil_id.
C13_Unique(products) ==
    \A i, j \in 1..Len(products) :
        i # j => products[i].toil_id # products[j].toil_id

\* The products of product_index.json and of product_index_v1.json in a
\* directory, where written, repeat no toil_id.
C13_UniqueIn(files) ==
    /\ files.legacy.fmt = "lf" => C13_Unique(files.legacy.data.list)
    /\ files.v1.fmt = "lf" => C13_Unique(files.v1.data.dict.products.list)

\* Two rows of the index table have the same TOIL ID.
C13_IndexRepeatsToilId(parsed) ==
    \E i, j \in 1..Len(parsed.rows) :
        i # j /\ Strip(parsed.rows[i][ColToilId]) = Strip(parsed.rows[j][ColToilId])

\* C13: after any sequence of runs of build_product_index and
\* build_registry_from_products no written product_index.json or
\* product_index_v1.json holds two products with the same toil_id; a run of
\* build_product_index on an index that repeats a TOIL ID in two rows, and a
\* run of build_registry_from_products on a checkout of which two packs name
\* the same TOIL ID, fails (exit status 1) and leaves every file as it was.
C13_ToilIdsUniqueInExports ==
    [][/\ C13_UniqueIn(exports')
       /\ C13_UniqueIn(strayExports')
       /\ (/\ last'.tool = "build_product_index"
           /\ \E parsed \in {BPI_parse_markdown_table(index)} :
                  parsed.ok /\ C13_IndexRepeatsToilId(parsed))
          => /\ last'.exit = 1
             /\ exports' = exports
             /\ strayExports' = strayExports
       /\ (/\ last'.tool = "build_registry_from_products"
           /\ last'.same_id_packs)
          => /\ last'.exit = 1
             /\ exports' = exports
             /\ strayExports' = strayExports]_vars

\* build_registry_from_products, in write mode, rejected a checkout of which
\* two packs name the same TOIL ID, on a registry whose index repeats a TOIL
\* ID in two rows (every run of build_product_index on it has failed), and
\* the exports of two products that build_registry_from_products wrote
\* before are still there.
C13_Witness ==
    /\ last.tool = "build_registry_from_products"
    /\ ~last.check
    /\ last.same_id_packs
    /\ last.exit = 1
    /\ last.err = "duplicate_toil_ids"
    /\ C13_IndexRepeatsToilId(BPI_parse_markdown_table(index))
    /\ exports.table.fmt = "lf"
    /\ exports.legacy.fmt = "lf"
    /\ Len(exports.legacy.data.list) = 2
    /\ C13_UniqueIn(exports)

====
